---------------------------- MODULE Spec2Model ----------------------------
(***************************************************************************)
(* Model of Mt3620UartSigfox/main.c: a single-threaded epoll dispatch loop *)
(* over a UART, a button GPIO polled by a periodic timer and an LED GPIO,  *)
(* with an asynchronous SIGTERM handler.                                   *)
(*                                                                         *)
(* The main context is modelled statement by statement through pc; the     *)
(* signal handler is a separate action that may interleave anywhere.       *)
(* Results of the system calls and applibs calls are chosen by the         *)
(* environment.                                                            *)
(***************************************************************************)
EXTENDS Integers, Sequences, FiniteSets, TLC

\* ------------------------------------------------------------------ bounds
\* Handler invocations (timer or UART) in one run.
MaxDispatch == 5
\* write() results enumerated: -1, 0..MaxShortWrite and all that is left.
MaxShortWrite == 2
\* read() results enumerated: -1, 0..MaxSmallRead and the full buffer.
MaxSmallRead == 5
\* Handler invocations in one run of the specification with fairness.
MaxLiveDispatch == 3

\* --------------------------------------------------------- program constants
receiveBufferSize == 256
\* size_t on the MT3620 application core (32-bit ARM) is held as two 16-bit
\* limbs, [hi, lo], so that its wrap-around at 2^32 is computed exactly.
Limb == 2 ^ 16

\* The size_t that holds the natural number n (n below 2^31).
SizeT(n) == [ hi |-> (n \div Limb) % Limb, lo |-> n % Limb ]

\* const char *messageToSend = "AT$RC\n\rAT$SF=692665535048455245\n\r";
messageToSend ==
    << "A", "T", "$", "R", "C", "\n", "\r",
       "A", "T", "$", "S", "F", "=",
       "6", "9", "2", "6", "6", "5", "5", "3", "5",
       "0", "4", "8", "4", "5", "5", "2", "4", "5",
       "\n", "\r" >>

strlen(s) == Len(s)

VARIABLES
    pc,                       \* position of the main context
    handlerInstalled,         \* sigaction(SIGTERM, TerminationHandler) done
    terminationRequired,      \* static volatile sig_atomic_t
    epollFd, uartFd, triggerSendButtonGpioFd, buttonPollTimerFd,
    incomingDataLedGpioFd,    \* the five static descriptors, -1 when invalid
    buttonState,              \* static GPIO_Value_Type
    totalBytesReceived,       \* static size_t
    openFds,                  \* kernel: descriptors open in the process
    registered,               \* kernel: epoll interest list, <<fd, handler>>
    ledLevel,                 \* hardware: level driven on the LED pin
    initResult, waitResult,   \* locals of main
    newButtonState,           \* locals of ButtonPollTimerEventHandler
    totalBytesSent, bytesSent,  \* locals of SendUartMessage
    bytesRead, result,        \* locals of UartEventHandler
    samples,                  \* history: levels returned by GPIO_GetValue
    sendPolls,                \* history: 0-based sample index of each send
    wire,                     \* history: bytes the running send has written
    sumRead,                  \* history: sum of the positive read() results
    nDispatch,                \* history: handler invocations so far
    closeLog,                 \* history: descriptors passed to close()
    initFailedAt,             \* history: the init step that failed
    acquireLog,               \* journal: descriptors in the order acquired
    ledRequested,             \* journal: level of the last write to the LED
    errors,                   \* journal: the calls that have failed
    log                       \* journal: the messages logged

fds == << epollFd, uartFd, triggerSendButtonGpioFd, buttonPollTimerFd,
          incomingDataLedGpioFd >>
kernel == << openFds, registered, ledLevel >>
globals == << buttonState, totalBytesReceived >>
sendLocals == << totalBytesSent, bytesSent >>
locals == << initResult, waitResult, newButtonState, sendLocals, bytesRead,
             result >>
history == << samples, sendPolls, wire, sumRead, nDispatch, closeLog,
              initFailedAt >>
journal == << acquireLog, ledRequested, errors, log >>
vars == << pc, handlerInstalled, terminationRequired, fds, globals, kernel,
           locals, history, journal >>

Levels == { "High", "Low" }

\* The lowest descriptor not in use, as open(2) and friends allocate it.
NextFd(open) ==
    CHOOSE n \in 0 .. Cardinality(open) :
        n \notin open /\ \A m \in 0 .. (n - 1) : m \in open

Init ==
    /\ pc = "start"
    /\ handlerInstalled = FALSE
    /\ terminationRequired = FALSE
    /\ epollFd = -1
    /\ uartFd = -1
    /\ triggerSendButtonGpioFd = -1
    /\ buttonPollTimerFd = -1
    /\ incomingDataLedGpioFd = -1
    /\ buttonState = "High"
    /\ totalBytesReceived = SizeT(0)
    /\ openFds = { 0, 1, 2 }
    /\ registered = {}
    /\ ledLevel = "Unconfigured"
    /\ initResult = 0
    /\ waitResult = 0
    /\ newButtonState = "High"
    /\ totalBytesSent = 0
    /\ bytesSent = 0
    /\ bytesRead = 0
    /\ result = 0
    /\ samples = << >>
    /\ sendPolls = << >>
    /\ wire = << >>
    /\ sumRead = 0
    /\ nDispatch = 0
    /\ closeLog = << >>
    /\ initFailedAt = "none"
    /\ acquireLog = << >>
    /\ ledRequested = "None"
    /\ errors = {}
    /\ log = {}

\* Log_Debug(...): the message, by a name, joins the log.
Log_Debug(msg) == log' = log \cup { msg }

\* ------------------------------------------------------- signal context

\* A handler that also switches the LED off.
TerminationHandler_LedOff ==
    /\ handlerInstalled
    /\ pc \notin { "done", "killed" }
    /\ terminationRequired' = TRUE
    /\ ledLevel' = "High"
    /\ UNCHANGED << pc, handlerInstalled, fds, globals, openFds, registered,
                    locals, history, journal >>

\* TerminationHandler: terminationRequired = true, nothing else.
TerminationHandler ==
    /\ handlerInstalled
    /\ pc \notin { "done", "killed" }
    /\ terminationRequired' = TRUE
    /\ UNCHANGED << pc, handlerInstalled, fds, globals, kernel, locals,
                    history, journal >>

\* SIGTERM before sigaction has run, at the start of main or after its first
\* Log_Debug: the default disposition ends the process.
SignalDefault ==
    /\ ~handlerInstalled
    /\ pc \in { "start", "init_sig" }
    /\ pc' = "killed"
    /\ UNCHANGED << handlerInstalled, terminationRequired, fds, globals,
                    kernel, locals, history, journal >>

\* ------------------------------------------- InitPeripheralsAndHandlers

\* InitPeripheralsAndHandlers returns -1 from the step named `step`, whose
\* failure is logged (by main.c, or by the epoll helper that failed) after
\* the messages `said` before the call.
InitFail(step, said) ==
    /\ initResult' = -1
    /\ initFailedAt' = step
    /\ errors' = errors \cup { step }
    /\ log' = log \cup said \cup { step }
    /\ pc' = "init_ret"
    /\ UNCHANGED << acquireLog, ledRequested >>

\* A step of InitPeripheralsAndHandlers has acquired the descriptor fd.
InitGot(fd, said) ==
    /\ acquireLog' = Append(acquireLog, fd)
    /\ log' = log \cup said
    /\ UNCHANGED << initResult, initFailedAt, errors >>

\* Log_Debug("UART application starting\n"); the first statement of main.
MainStart ==
    /\ pc = "start"
    /\ pc' = "init_sig"
    /\ Log_Debug("starting")
    /\ UNCHANGED << handlerInstalled, terminationRequired, fds, globals,
                    kernel, locals, history, acquireLog, ledRequested,
                    errors >>

\* InitPeripheralsAndHandlers starting on the peripherals without the call
\* of sigaction.
InstallHandler_Skipped ==
    /\ pc = "init_sig"
    /\ pc' = "init_epoll"
    /\ UNCHANGED << handlerInstalled, terminationRequired, fds, globals,
                    kernel, locals, history, journal >>

\* struct sigaction action; ... sigaction(SIGTERM, &action, NULL);
InstallHandler ==
    /\ pc = "init_sig"
    /\ handlerInstalled' = TRUE
    /\ pc' = "init_epoll"
    /\ UNCHANGED << terminationRequired, fds, globals, kernel, locals,
                    history, journal >>

InitEpoll ==
    /\ pc = "init_epoll"
    /\ \/ /\ epollFd' = NextFd(openFds)
          /\ openFds' = openFds \cup { NextFd(openFds) }
          /\ pc' = "init_uart"
          /\ InitGot(NextFd(openFds), {})
          /\ UNCHANGED ledRequested
       \/ /\ InitFail("epoll", {})
          /\ UNCHANGED << epollFd, openFds >>
    /\ UNCHANGED << handlerInstalled, terminationRequired, uartFd,
                    triggerSendButtonGpioFd, buttonPollTimerFd,
                    incomingDataLedGpioFd, globals, registered, ledLevel,
                    waitResult, newButtonState, sendLocals, bytesRead, result,
                    samples, sendPolls, wire, sumRead, nDispatch, closeLog >>

InitUartOpen ==
    /\ pc = "init_uart"
    /\ \/ /\ uartFd' = NextFd(openFds)
          /\ openFds' = openFds \cup { NextFd(openFds) }
          /\ pc' = "init_uart_reg"
          /\ InitGot(NextFd(openFds), {})
          /\ UNCHANGED ledRequested
       \/ /\ InitFail("uart_open", {})
          /\ UNCHANGED << uartFd, openFds >>
    /\ UNCHANGED << handlerInstalled, terminationRequired, epollFd,
                    triggerSendButtonGpioFd, buttonPollTimerFd,
                    incomingDataLedGpioFd, globals, registered, ledLevel,
                    waitResult, newButtonState, sendLocals, bytesRead, result,
                    samples, sendPolls, wire, sumRead, nDispatch, closeLog >>

InitUartRegister ==
    /\ pc = "init_uart_reg"
    /\ \/ /\ registered' = registered \cup { << uartFd, "UartEventHandler" >> }
          /\ pc' = "init_button"
          /\ UNCHANGED << initResult, initFailedAt, journal >>
       \/ /\ InitFail("uart_register", {})
          /\ UNCHANGED registered
    /\ UNCHANGED << handlerInstalled, terminationRequired, fds, globals,
                    openFds, ledLevel, waitResult, newButtonState, sendLocals,
                    bytesRead, result, samples, sendPolls, wire, sumRead,
                    nDispatch, closeLog >>

InitButton ==
    /\ pc = "init_button"
    /\ \/ /\ triggerSendButtonGpioFd' = NextFd(openFds)
          /\ openFds' = openFds \cup { NextFd(openFds) }
          /\ pc' = "init_timer"
          /\ InitGot(NextFd(openFds), { "opening_button" })
          /\ UNCHANGED ledRequested
       \/ /\ InitFail("button", { "opening_button" })
          /\ UNCHANGED << triggerSendButtonGpioFd, openFds >>
    /\ UNCHANGED << handlerInstalled, terminationRequired, epollFd, uartFd,
                    buttonPollTimerFd, incomingDataLedGpioFd, globals,
                    registered, ledLevel, waitResult, newButtonState,
                    sendLocals, bytesRead, result, samples, sendPolls, wire,
                    sumRead, nDispatch, closeLog >>

\* CreateTimerFdAndAddToEpoll: the timer is created and registered, or -1.
InitTimer ==
    /\ pc = "init_timer"
    /\ \/ /\ buttonPollTimerFd' = NextFd(openFds)
          /\ openFds' = openFds \cup { NextFd(openFds) }
          /\ registered' = registered \cup
                 { << NextFd(openFds), "ButtonPollTimerEventHandler" >> }
          /\ pc' = "init_led"
          /\ InitGot(NextFd(openFds), {})
          /\ UNCHANGED ledRequested
       \/ /\ InitFail("timer", {})
          /\ UNCHANGED << buttonPollTimerFd, openFds, registered >>
    /\ UNCHANGED << handlerInstalled, terminationRequired, epollFd, uartFd,
                    triggerSendButtonGpioFd, incomingDataLedGpioFd, globals,
                    ledLevel, waitResult, newButtonState, sendLocals,
                    bytesRead, result, samples, sendPolls, wire, sumRead,
                    nDispatch, closeLog >>

\* GPIO_OpenAsOutput(..., GPIO_Value_High), then return 0.
InitLed ==
    /\ pc = "init_led"
    /\ \/ /\ incomingDataLedGpioFd' = NextFd(openFds)
          /\ openFds' = openFds \cup { NextFd(openFds) }
          /\ ledLevel' = "High"
          /\ ledRequested' = "High"
          /\ acquireLog' = Append(acquireLog, NextFd(openFds))
          /\ Log_Debug("opening_led")
          /\ initResult' = 0
          /\ pc' = "init_ret"
          /\ UNCHANGED << initFailedAt, errors >>
       \/ /\ InitFail("led", { "opening_led" })
          /\ UNCHANGED << incomingDataLedGpioFd, openFds, ledLevel >>
    /\ UNCHANGED << handlerInstalled, terminationRequired, epollFd, uartFd,
                    triggerSendButtonGpioFd, buttonPollTimerFd, globals,
                    registered, waitResult, newButtonState, sendLocals,
                    bytesRead, result, samples, sendPolls, wire, sumRead,
                    nDispatch, closeLog >>

\* ----------------------------------------------------------------- main

\* if (InitPeripheralsAndHandlers() != 0) terminationRequired = true;
MainAfterInit ==
    /\ pc = "init_ret"
    /\ terminationRequired' = (IF initResult # 0 THEN TRUE
                                                 ELSE terminationRequired)
    /\ pc' = "loop"
    /\ UNCHANGED << handlerInstalled, fds, globals, kernel, locals, history,
                    journal >>

\* The loop entered without a look at terminationRequired.
LoopEnter_Unconditional ==
    /\ pc = "loop"
    /\ nDispatch < MaxDispatch
    /\ pc' = "wait"
    /\ UNCHANGED << handlerInstalled, terminationRequired, fds, globals,
                    kernel, locals, history, journal >>

\* while (!terminationRequired): enter WaitForEventAndCallHandler(epollFd)
LoopEnter ==
    /\ pc = "loop"
    /\ ~terminationRequired
    /\ nDispatch < MaxDispatch
    /\ pc' = "wait"
    /\ UNCHANGED << handlerInstalled, terminationRequired, fds, globals,
                    kernel, locals, history, journal >>

\* while (!terminationRequired) is false: go on to ClosePeripheralsAndHandlers
LoopExit ==
    /\ pc = "loop"
    /\ terminationRequired
    /\ pc' = "close_led"
    /\ UNCHANGED << handlerInstalled, terminationRequired, fds, globals,
                    kernel, locals, history, journal >>

\* The handler the epoll interest list of epollFd holds for a ready source.
ReadyHandlers == { e[2] : e \in { r \in registered : r[1] \in openFds } }

\* WaitForEventAndCallHandler: epoll_wait reports one ready source and its
\* handler is called, or it is interrupted (returns 0), or it fails (-1).
WaitDispatch ==
    /\ pc = "wait"
    /\ \/ /\ "ButtonPollTimerEventHandler" \in ReadyHandlers
          /\ pc' = "btn_consume"
          /\ nDispatch' = nDispatch + 1
          /\ UNCHANGED << waitResult, errors, log >>
       \/ /\ "UartEventHandler" \in ReadyHandlers
          /\ pc' = "uart_read"
          /\ nDispatch' = nDispatch + 1
          /\ UNCHANGED << waitResult, errors, log >>
       \/ /\ pc' = "wait_chk"
          /\ waitResult' = 0
          /\ UNCHANGED << nDispatch, errors, log >>
       \/ /\ pc' = "wait_chk"
          /\ waitResult' = -1
          /\ errors' = errors \cup { "wait" }
          /\ Log_Debug("wait")
          /\ UNCHANGED nDispatch
    /\ UNCHANGED << handlerInstalled, terminationRequired, fds, globals,
                    kernel, initResult, newButtonState, sendLocals, bytesRead,
                    result, samples, sendPolls, wire, sumRead, closeLog,
                    initFailedAt, acquireLog, ledRequested >>

\* if (WaitForEventAndCallHandler(epollFd) != 0) terminationRequired = true;
MainAfterWait ==
    /\ pc = "wait_chk"
    /\ terminationRequired' = (IF waitResult # 0 THEN TRUE
                                                 ELSE terminationRequired)
    /\ waitResult' = 0
    /\ pc' = "loop"
    /\ UNCHANGED << handlerInstalled, fds, globals, kernel, initResult,
                    newButtonState, sendLocals, bytesRead, result, history,
                    journal >>

\* ------------------------------------------ ButtonPollTimerEventHandler

\* The return left out: the button is read after a failed acknowledgement.
ButtonConsume_NoReturn ==
    /\ pc = "btn_consume"
    /\ \/ UNCHANGED << terminationRequired, errors, log >>
       \/ /\ errors' = errors \cup { "timer_ack" }
          /\ Log_Debug("timer_ack")
          /\ terminationRequired' = TRUE
    /\ pc' = "btn_read"
    /\ UNCHANGED << handlerInstalled, fds, globals, kernel, locals, history,
                    acquireLog, ledRequested >>

\* if (ConsumeTimerFdEvent(buttonPollTimerFd) != 0) { flag; return; }
ButtonConsume ==
    /\ pc = "btn_consume"
    /\ \/ /\ pc' = "btn_read"
          /\ UNCHANGED << terminationRequired, errors, log >>
       \/ /\ errors' = errors \cup { "timer_ack" }
          /\ Log_Debug("timer_ack")
          /\ terminationRequired' = TRUE
          /\ pc' = "wait_chk"
    /\ UNCHANGED << handlerInstalled, fds, globals, kernel, locals, history,
                    acquireLog, ledRequested >>

\* GPIO_GetValue(triggerSendButtonGpioFd, &newButtonState), with its check
ButtonRead ==
    /\ pc = "btn_read"
    /\ \/ \E v \in Levels :
            /\ newButtonState' = v
            /\ samples' = Append(samples, v)
            /\ pc' = "btn_cmp"
            /\ UNCHANGED << terminationRequired, errors, log >>
       \/ /\ errors' = errors \cup { "button_read" }
          /\ Log_Debug("button_read")
          /\ terminationRequired' = TRUE
          /\ pc' = "wait_chk"
          /\ UNCHANGED << newButtonState, samples >>
    /\ UNCHANGED << handlerInstalled, fds, globals, kernel, initResult,
                    waitResult, sendLocals, bytesRead, result, sendPolls,
                    wire, sumRead, nDispatch, closeLog, initFailedAt,
                    acquireLog, ledRequested >>

\* if (newButtonState != buttonState)
ButtonChanged(new, old) == new # old

\* The inner test left out: a send on every change of level.
ButtonPressed_AnyEdge(new) == TRUE

\* if (newButtonState == GPIO_Value_Low): the button has just been pressed
ButtonPressed(new) == new = "Low"

\* The two nested tests; SendUartMessage is entered on a press edge.
ButtonCompare ==
    /\ pc = "btn_cmp"
    /\ IF ButtonChanged(newButtonState, buttonState)
       THEN IF ButtonPressed(newButtonState)
            THEN /\ pc' = "send_loop"
                 /\ totalBytesSent' = 0
                 /\ bytesSent' = 0
                 /\ sendPolls' = Append(sendPolls, Len(samples) - 1)
                 /\ wire' = << >>
            ELSE /\ pc' = "btn_update"
                 /\ UNCHANGED << sendLocals, sendPolls, wire >>
       ELSE /\ pc' = "wait_chk"
            /\ UNCHANGED << sendLocals, sendPolls, wire >>
    /\ UNCHANGED << handlerInstalled, terminationRequired, fds, globals,
                    kernel, initResult, waitResult, newButtonState, bytesRead,
                    result, samples, sumRead, nDispatch, closeLog,
                    initFailedAt, journal >>

\* The level not recorded when the send was abandoned.
ButtonUpdate_KeepOnAbort ==
    /\ pc = "btn_update"
    /\ buttonState' = (IF bytesSent < 0 THEN buttonState ELSE newButtonState)
    /\ totalBytesSent' = 0
    /\ bytesSent' = 0
    /\ wire' = << >>
    /\ pc' = "wait_chk"
    /\ UNCHANGED << handlerInstalled, terminationRequired, fds,
                    totalBytesReceived, kernel, initResult, waitResult,
                    newButtonState, bytesRead, result, samples, sendPolls,
                    sumRead, nDispatch, closeLog, initFailedAt, journal >>

\* buttonState = newButtonState; and the handler returns
ButtonUpdate ==
    /\ pc = "btn_update"
    /\ buttonState' = newButtonState
    /\ totalBytesSent' = 0
    /\ bytesSent' = 0
    /\ wire' = << >>
    /\ pc' = "wait_chk"
    /\ UNCHANGED << handlerInstalled, terminationRequired, fds,
                    totalBytesReceived, kernel, initResult, waitResult,
                    newButtonState, bytesRead, result, samples, sendPolls,
                    sumRead, nDispatch, closeLog, initFailedAt, journal >>

\* ------------------------------------------------------ SendUartMessage

\* The pointer not advanced: every write starts at the head of the message.
RemainingMessageToSend_FromStart(dataToSend, sent) == dataToSend

\* const char *remainingMessageToSend = dataToSend + totalBytesSent;
RemainingMessageToSend(dataToSend, sent) ==
    SubSeq(dataToSend, sent + 1, Len(dataToSend))

\* size_t bytesLeftToSend = totalBytesToSend - totalBytesSent;
BytesLeftToSend(dataToSend, sent) == strlen(dataToSend) - sent

\* while (totalBytesSent < totalBytesToSend)
SendLoopContinues(sent, total) == sent < total

\* What write(fd, buf, count) may return: -1, or the number of bytes it
\* accepted, none, a few or all of them, in any turn of the loop and any
\* number of times.
WriteResults(count) ==
    { -1, count } \cup { n \in 0 .. MaxShortWrite : n < count }

\* A write that accepts no byte taken for a failed one.
WriteFailed_OrZero(n) == n <= 0

\* if (bytesSent < 0)
WriteFailed(n) == n < 0

\* bytesSent = write(uartFd, remainingMessageToSend, bytesLeftToSend);  the
\* bytes the write accepted are on the wire.  The local sendIterations, which
\* the same turn increments, is read only to fill in the number of calls in
\* the text of the "Sent ... bytes" message; the log is kept here as the set
\* of messages without their numbers, and the counter is not part of the
\* state.
SendWrite ==
    /\ pc = "send_loop"
    /\ SendLoopContinues(totalBytesSent, strlen(messageToSend))
    /\ \E n \in WriteResults(BytesLeftToSend(messageToSend, totalBytesSent)) :
          /\ bytesSent' = n
          /\ wire' = (IF n > 0
                      THEN wire \o SubSeq(RemainingMessageToSend(
                                             messageToSend, totalBytesSent),
                                           1, n)
                      ELSE wire)
    /\ pc' = "send_chk"
    /\ UNCHANGED << handlerInstalled, terminationRequired, fds, globals,
                    kernel, initResult, waitResult, newButtonState,
                    totalBytesSent, bytesRead, result, samples, sendPolls,
                    sumRead, nDispatch, closeLog, initFailedAt, journal >>

\* if (bytesSent < 0) { Log_Debug; flag; return; }
\* totalBytesSent += (size_t)bytesSent;  bytesSent lives for one turn of the
\* loop; it is kept when the send is abandoned, until the caller returns.
SendCheck ==
    /\ pc = "send_chk"
    /\ IF WriteFailed(bytesSent)
       THEN /\ errors' = errors \cup { "uart_write" }
            /\ Log_Debug("uart_write")
            /\ terminationRequired' = TRUE
            /\ pc' = "btn_update"
            /\ UNCHANGED << totalBytesSent, bytesSent >>
       ELSE /\ totalBytesSent' = totalBytesSent + bytesSent
            /\ bytesSent' = 0
            /\ pc' = "send_loop"
            /\ UNCHANGED << terminationRequired, errors, log >>
    /\ UNCHANGED << handlerInstalled, fds, globals, kernel, initResult,
                    waitResult, newButtonState, bytesRead,
                    result, history, acquireLog, ledRequested >>

\* The loop condition is false: log and return to the button handler.
SendDone ==
    /\ pc = "send_loop"
    /\ ~SendLoopContinues(totalBytesSent, strlen(messageToSend))
    /\ pc' = "btn_update"
    /\ Log_Debug("sent")
    /\ UNCHANGED << handlerInstalled, terminationRequired, fds, globals,
                    kernel, locals, history, acquireLog, ledRequested,
                    errors >>

\* ----------------------------------------------------- UartEventHandler

\* uint8_t receiveBuffer[receiveBufferSize + 1];
ReceiveBufferLength == receiveBufferSize + 1

\* receiveBuffer[bytesRead] = 0;  the index stored to.
TerminatorIndex(n) == n

\* What read(uartFd, receiveBuffer, receiveBufferSize) may return.
ReadResults == { -1 } \cup (0 .. MaxSmallRead) \cup { receiveBufferSize }

\* bytesRead = read(uartFd, receiveBuffer, receiveBufferSize);
UartRead ==
    /\ pc = "uart_read"
    /\ \E n \in ReadResults :
          /\ bytesRead' = n
          /\ sumRead' = (IF n > 0 THEN sumRead + n ELSE sumRead)
    /\ pc' = "uart_chk"
    /\ UNCHANGED << handlerInstalled, terminationRequired, fds, globals,
                    kernel, initResult, waitResult, newButtonState,
                    sendLocals, result, samples, sendPolls, wire, nDispatch,
                    closeLog, initFailedAt, journal >>

\* A read of no byte taken for a failed one.
ReadFailed_OrZero(n) == n <= 0

\* if (bytesRead < 0)
ReadFailed(n) == n < 0

\* if (bytesRead < 0) { flag; return; }  if (bytesRead > 0) { ... }
\* The locals of a handler that returns normally are cleared; those of one
\* that reported an error are left as they were.
UartCheck ==
    /\ pc = "uart_chk"
    /\ IF ReadFailed(bytesRead)
       THEN /\ errors' = errors \cup { "uart_read" }
            /\ Log_Debug("uart_read")
            /\ terminationRequired' = TRUE
            /\ pc' = "wait_chk"
            /\ UNCHANGED bytesRead
       ELSE IF bytesRead > 0
            THEN /\ pc' = "uart_add"
                 /\ UNCHANGED << terminationRequired, bytesRead, errors,
                                 log >>
            ELSE /\ pc' = "wait_chk"
                 /\ UNCHANGED << terminationRequired, bytesRead, errors,
                                 log >>
    /\ UNCHANGED << handlerInstalled, fds, globals, kernel, initResult,
                    waitResult, newButtonState, sendLocals, result, history,
                    acquireLog, ledRequested >>

\* totalBytesReceived += (size_t)bytesRead;
AddReceived(total, n) ==
    LET lo == total.lo + n
    IN  [ hi |-> (total.hi + (lo \div Limb)) % Limb, lo |-> lo % Limb ]

UartAdd ==
    /\ pc = "uart_add"
    /\ totalBytesReceived' = AddReceived(totalBytesReceived, bytesRead)
    /\ Log_Debug("received")
    /\ pc' = "uart_led"
    /\ UNCHANGED << handlerInstalled, terminationRequired, fds, buttonState,
                    kernel, locals, history, acquireLog, ledRequested,
                    errors >>

\* The parity of the bytes of this call instead of the running total.
LedValueFor_PerCall(total, lastRead) ==
    IF (lastRead % 2) = 1 THEN "Low" ELSE "High"

\* (totalBytesReceived % 2) == 1 ? GPIO_Value_Low : GPIO_Value_High
LedValueFor(total, lastRead) == IF (total.lo % 2) = 1 THEN "Low" ELSE "High"

\* int result = GPIO_SetValue(incomingDataLedGpioFd, ...);
UartSetLed ==
    /\ pc = "uart_led"
    /\ \/ /\ incomingDataLedGpioFd \in openFds
          /\ ledLevel' = LedValueFor(totalBytesReceived, bytesRead)
          /\ result' = 0
          /\ UNCHANGED errors
       \/ /\ result' = -1
          /\ errors' = errors \cup { "led_write" }
          /\ UNCHANGED ledLevel
    /\ ledRequested' = LedValueFor(totalBytesReceived, bytesRead)
    /\ pc' = "uart_led_chk"
    /\ UNCHANGED << handlerInstalled, terminationRequired, fds, globals,
                    openFds, registered, initResult, waitResult,
                    newButtonState, sendLocals, bytesRead, history,
                    acquireLog, log >>

\* Only a positive result taken for a failure; GPIO_SetValue returns -1.
LedWriteFailed_Positive(r) == r > 0

\* if (result != 0)
LedWriteFailed(r) == r # 0

\* if (result != 0) terminationRequired = true;  and the handler returns
UartLedCheck ==
    /\ pc = "uart_led_chk"
    /\ IF LedWriteFailed(result)
       THEN /\ Log_Debug("led_write")
            /\ terminationRequired' = TRUE
            /\ UNCHANGED << bytesRead, result >>
       ELSE /\ bytesRead' = 0
            /\ result' = 0
            /\ UNCHANGED << terminationRequired, log >>
    /\ pc' = "wait_chk"
    /\ UNCHANGED << handlerInstalled, fds, globals, kernel, initResult,
                    waitResult, newButtonState, sendLocals, history,
                    acquireLog, ledRequested, errors >>

\* -------------------------------------------- ClosePeripheralsAndHandlers

\* if (incomingDataLedGpioFd >= 0) GPIO_SetValue(..., GPIO_Value_High);
\* the result is not looked at.  Log_Debug("Closing file descriptors\n");
CloseLedOff ==
    /\ pc = "close_led"
    /\ IF incomingDataLedGpioFd >= 0
       THEN /\ ledRequested' = "High"
            /\ \/ /\ incomingDataLedGpioFd \in openFds
                  /\ ledLevel' = "High"
                  /\ UNCHANGED errors
               \/ /\ errors' = errors \cup { "led_off" }
                  /\ UNCHANGED ledLevel
       ELSE UNCHANGED << ledLevel, ledRequested, errors >>
    /\ Log_Debug("closing")
    /\ pc' = "close_1"
    /\ UNCHANGED << handlerInstalled, terminationRequired, fds, globals,
                    openFds, registered, locals, history, acquireLog >>

\* The timer closed twice and the UART never.
CloseOrder_NoUart ==
    << incomingDataLedGpioFd, buttonPollTimerFd, triggerSendButtonGpioFd,
       buttonPollTimerFd, epollFd >>

\* The descriptors closed in the order they were acquired.
CloseOrder_AsAcquired ==
    << epollFd, uartFd, triggerSendButtonGpioFd, buttonPollTimerFd,
       incomingDataLedGpioFd >>

\* The descriptors in the order ClosePeripheralsAndHandlers closes them.
CloseOrder ==
    << incomingDataLedGpioFd, buttonPollTimerFd, triggerSendButtonGpioFd,
       uartFd, epollFd >>

\* A close that leaves the descriptor on the interest list.
CloseFdAndPrintError_KeepRegistered(fd) ==
    IF fd >= 0
    THEN /\ openFds' = openFds \ { fd }
         /\ closeLog' = Append(closeLog, fd)
         /\ UNCHANGED registered
    ELSE UNCHANGED << openFds, registered, closeLog >>

\* CloseFdAndPrintError(fd, name): close(fd) when fd >= 0.  Closing a source
\* takes it off the interest list; closing the epoll instance drops the list.
CloseFdAndPrintError(fd) ==
    IF fd >= 0
    THEN /\ openFds' = openFds \ { fd }
         /\ registered' = (IF fd = epollFd
                           THEN {}
                           ELSE { r \in registered : r[1] # fd })
         /\ closeLog' = Append(closeLog, fd)
    ELSE UNCHANGED << openFds, registered, closeLog >>

\* The k-th of the five CloseFdAndPrintError calls.
CloseStep(k) ==
    /\ pc = "close_" \o ToString(k)
    /\ CloseFdAndPrintError(CloseOrder[k])
    /\ pc' = (IF k < Len(CloseOrder) THEN "close_" \o ToString(k + 1)
                                     ELSE "done")
    /\ log' = (IF k < Len(CloseOrder) THEN log ELSE log \cup { "exiting" })
    /\ UNCHANGED << handlerInstalled, terminationRequired, fds, globals,
                    ledLevel, locals, samples, sendPolls, wire, sumRead,
                    nDispatch, initFailedAt, acquireLog, ledRequested,
                    errors >>

ClosePeripheralsAndHandlers ==
    \/ CloseLedOff
    \/ \E k \in 1 .. Len(CloseOrder) : CloseStep(k)

\* ---------------------------------------------------------- specification

InitPeripheralsAndHandlers ==
    \/ InstallHandler
    \/ InitEpoll
    \/ InitUartOpen
    \/ InitUartRegister
    \/ InitButton
    \/ InitTimer
    \/ InitLed

ButtonPollTimerEventHandler ==
    \/ ButtonConsume
    \/ ButtonRead
    \/ ButtonCompare
    \/ ButtonUpdate

SendUartMessage ==
    \/ SendWrite
    \/ SendCheck
    \/ SendDone

UartEventHandler ==
    \/ UartRead
    \/ UartCheck
    \/ UartAdd
    \/ UartSetLed
    \/ UartLedCheck

\* Every step of the main context but the entry into the wait.
MainRest ==
    \/ MainStart
    \/ InitPeripheralsAndHandlers
    \/ MainAfterInit
    \/ LoopExit
    \/ WaitDispatch
    \/ MainAfterWait
    \/ ButtonPollTimerEventHandler
    \/ SendUartMessage
    \/ UartEventHandler
    \/ ClosePeripheralsAndHandlers

\* Every step of the main context.
Main ==
    \/ LoopEnter
    \/ MainRest

Next ==
    \/ Main
    \/ TerminationHandler
    \/ SignalDefault

Spec == Init /\ [][Next]_vars

\* The same program with fewer handler invocations, for the properties that
\* need fairness.
LiveLoopEnter ==
    /\ nDispatch < MaxLiveDispatch
    /\ LoopEnter

LiveMain ==
    \/ LiveLoopEnter
    \/ MainRest

LiveNext ==
    \/ LiveMain
    \/ TerminationHandler
    \/ SignalDefault

\* The main context keeps running while it can take a step: a wait that is
\* entered returns (the timer fires every millisecond), and every call made
\* by a handler returns.
LiveSpec == Init /\ [][LiveNext]_vars /\ WF_vars(LiveMain)

\* The counter MaxSmallRead bytes short of 2^32.
WrapStart == [ hi |-> Limb - 1, lo |-> Limb - MaxSmallRead ]

\* The program in its dispatch loop after InitPeripheralsAndHandlers has
\* succeeded and the UART has delivered 2^32 - MaxSmallRead bytes, the last
\* LED write having set the level for that total.  The history variables
\* record the run from this state on.
WrapInit ==
    /\ pc = "loop"
    /\ handlerInstalled = TRUE
    /\ terminationRequired = FALSE
    /\ epollFd = 3
    /\ uartFd = 4
    /\ triggerSendButtonGpioFd = 5
    /\ buttonPollTimerFd = 6
    /\ incomingDataLedGpioFd = 7
    /\ buttonState = "High"
    /\ totalBytesReceived = WrapStart
    /\ openFds = 0 .. 7
    /\ registered = { << 4, "UartEventHandler" >>,
                      << 6, "ButtonPollTimerEventHandler" >> }
    /\ ledLevel = LedValueFor(WrapStart, 0)
    /\ initResult = 0
    /\ waitResult = 0
    /\ newButtonState = "High"
    /\ totalBytesSent = 0
    /\ bytesSent = 0
    /\ bytesRead = 0
    /\ result = 0
    /\ samples = << >>
    /\ sendPolls = << >>
    /\ wire = << >>
    /\ sumRead = 0
    /\ nDispatch = 0
    /\ closeLog = << >>
    /\ initFailedAt = "none"
    /\ acquireLog = << 3, 4, 5, 6, 7 >>
    /\ ledRequested = LedValueFor(WrapStart, 0)
    /\ errors = {}
    /\ log = { "starting", "opening_button", "opening_led", "received" }

WrapMain ==
    \/ LiveLoopEnter
    \/ LoopExit
    \/ WaitDispatch
    \/ MainAfterWait
    \/ ButtonPollTimerEventHandler
    \/ SendUartMessage
    \/ UartEventHandler
    \/ ClosePeripheralsAndHandlers

WrapNext ==
    \/ WrapMain
    \/ TerminationHandler

\* The program from the state where its counter is about to pass 2^32.
WrapSpec == WrapInit /\ [][WrapNext]_vars

\* A write that fails or accepts at least one byte.
SendWriteSome == SendWrite /\ bytesSent' # 0

\* LiveSpec with the further assumption that a send is not refused bytes for
\* ever: the write that fails or accepts a byte comes in the end.
ProgressSpec ==
    Init /\ [][LiveNext]_vars /\ WF_vars(LiveMain) /\ SF_vars(SendWriteSome)

\* ----------------------------------------------------------- properties

IsPrefix(s, t) == Len(s) <= Len(t) /\ s = SubSeq(t, 1, Len(s))

\* The sample before the i-th (1-based); buttonState starts High.
PreviousSample(s, i) == IF i = 1 THEN "High" ELSE s[i - 1]

\* The 0-based indices, among the first n samples of s, of the samples that
\* are Low after a High.
PressEdges(s, n) ==
    SelectSeq([ i \in 1 .. n |-> i - 1 ],
              LAMBDA j : s[j + 1] = "Low" /\ PreviousSample(s, j + 1) = "High")

\* The samples the handler has compared so far.
SamplesCompared == IF pc = "btn_cmp" THEN Len(samples) - 1 ELSE Len(samples)

\* C1: a send is started on a poll if and only if that poll's sample is Low
\* and the sample before it (or the initial High) is High.
C1_SendIffPressEdge == sendPolls = PressEdges(samples, SamplesCompared)

\* Scenario A: samples High, Low, Low, High, Low start sends at 1 and 4.
C1_ScenarioA ==
    /\ samples = << "High", "Low", "Low", "High", "Low" >>
    /\ sendPolls = << 1, 4 >>
    /\ pc = "wait_chk"

\* SendUartMessage has returned to the button handler.
SendEnded == pc = "btn_update" /\ newButtonState = "Low"

\* C2 as stated: when SendUartMessage ends, the whole command string has
\* been written or no byte of it has.
C2_AllOrNothing ==
    SendEnded => (wire = messageToSend \/ wire = << >>)

\* C2 as amended: when SendUartMessage ends, the whole command string has
\* been written, or a write failed, terminationRequired is set and the bytes
\* written are a proper prefix of the string, empty or not, as many as the
\* writes before the failed one accepted.
C2_AllOrProperPrefix ==
    SendEnded =>
        \/ bytesSent >= 0 /\ wire = messageToSend
        \/ /\ bytesSent < 0
           /\ terminationRequired
           /\ IsPrefix(wire, messageToSend)
           /\ wire # messageToSend
           /\ Len(wire) = totalBytesSent

\* A send abandoned after "AT$RC\n\r" had gone out.
C2_AbandonedAfterPrefix ==
    /\ SendEnded
    /\ bytesSent < 0
    /\ wire = SubSeq(messageToSend, 1, 7)

\* C3: the bytes accepted by the writes of one send are, in order, a prefix
\* of the command string, as many as totalBytesSent counts, and the whole
\* string when the send ends without a write error.
C3_WrittenIsPrefix ==
    /\ IsPrefix(wire, messageToSend)
    /\ (pc = "send_loop" => Len(wire) = totalBytesSent)
    /\ (SendEnded /\ bytesSent >= 0 =>
            wire = messageToSend /\ totalBytesSent = strlen(messageToSend))

\* The write that completes a send split into three writes or more: the
\* writes before it accepted MaxShortWrite + 1 bytes, which takes two of them
\* at least, and this one has accepted all the rest.
C3_CompletedByPartialWrites ==
    /\ pc = "send_chk"
    /\ totalBytesSent = MaxShortWrite + 1
    /\ bytesSent = BytesLeftToSend(messageToSend, totalBytesSent)
    /\ wire = messageToSend

\* The bytes of a read that has returned and that UartEventHandler has not
\* added to the counter yet.
ReadNotCounted ==
    IF pc \in { "uart_chk", "uart_add" } /\ bytesRead > 0 THEN bytesRead ELSE 0

\* C4 modulo 2^32: totalBytesReceived is the sum of the positive read
\* results as a size_t holds it, less the read whose count UartEventHandler
\* is about to add.
C4_CounterIsSumOfReads ==
    totalBytesReceived = SizeT(sumRead - ReadNotCounted)

\* Two UART invocations and nothing else, 8 bytes in all.
C4_TwoReadsOfEight ==
    /\ pc = "wait_chk"
    /\ nDispatch = 2
    /\ samples = << >>
    /\ sumRead = 8
    /\ totalBytesReceived = SizeT(8)

\* C5: after a UartEventHandler LED write that succeeded, the LED is on (Low)
\* when the running total is odd and off (High) when it is even.
C5_LedFollowsTotalParity ==
    (pc = "uart_led_chk" /\ result = 0) =>
        /\ (totalBytesReceived.lo % 2 = 1 => ledLevel = "Low")
        /\ (totalBytesReceived.lo % 2 = 0 => ledLevel = "High")

\* 5 bytes then 4: the call read an even count, the total is 9, the LED is on.
C5_FiveThenFour ==
    /\ pc = "uart_led_chk"
    /\ result = 0
    /\ bytesRead = 4
    /\ totalBytesReceived = SizeT(9)
    /\ ledLevel = "Low"

\* The descriptors the program holds.
Acquired == { fd \in { epollFd, uartFd, triggerSendButtonGpioFd,
                       buttonPollTimerFd, incomingDataLedGpioFd } : fd >= 0 }

TimesClosed(fd) == Cardinality({ i \in 1 .. Len(closeLog) : closeLog[i] = fd })

\* main has returned after ClosePeripheralsAndHandlers closed what was held.
Terminated ==
    /\ pc = "done"
    /\ \A fd \in Acquired : TimesClosed(fd) >= 1

\* C6: once terminationRequired is set, wherever main is, the program leaves
\* the dispatch loop, runs ClosePeripheralsAndHandlers and terminates.
C6_ShutdownHappens == terminationRequired ~> Terminated

\* C7: when an init step fails, terminationRequired is set once main has
\* looked at the result, no handler is dispatched, and at exit everything
\* acquired has been closed exactly once and nothing is left open.
C7_InitFailureReleasesAll ==
    initFailedAt # "none" =>
        /\ nDispatch = 0
        /\ pc \in { "init_ret", "loop", "close_led", "close_1", "close_2",
                    "close_3", "close_4", "close_5", "done" }
        /\ (pc # "init_ret" => terminationRequired)
        /\ (pc = "done" =>
               /\ openFds = { 0, 1, 2 }
               /\ \A fd \in Acquired : TimesClosed(fd) = 1
               /\ Len(closeLog) = Cardinality(Acquired))

\* Scenario C: the LED step failed; the UART and the timer, both acquired,
\* are closed at exit.
C7_LedStepFailed ==
    /\ initFailedAt = "led"
    /\ pc = "done"
    /\ uartFd >= 0 /\ uartFd \notin openFds
    /\ buttonPollTimerFd >= 0 /\ buttonPollTimerFd \notin openFds

\* C8: a step that does not move the main context (its position and locals)
\* is the signal handler's: it sets terminationRequired and changes nothing
\* else.
C8_SignalOnlySetsFlag ==
    [][ UNCHANGED << pc, locals >> =>
            /\ terminationRequired' = TRUE
            /\ UNCHANGED << handlerInstalled, fds, globals, kernel,
                            history, journal >> ]_vars

\* The signal arrived between the read and the update of the counter.
C8_SignalMidRead ==
    /\ pc = "uart_add"
    /\ terminationRequired
    /\ bytesRead > 0
    /\ totalBytesReceived = SizeT(sumRead - bytesRead)

\* C9: the step UartEventHandler takes after a read of zero bytes returns
\* from the handler and leaves totalBytesReceived, the LED and
\* terminationRequired as they were.
C9_ZeroReadIsNoOp ==
    [][ (pc = "uart_chk" /\ bytesRead = 0 /\ pc' # pc) =>
            /\ pc' = "wait_chk"
            /\ UNCHANGED << totalBytesReceived, ledLevel,
                            terminationRequired >> ]_vars

\* One handler invocation, of UartEventHandler, whose read returned zero.
C9_AfterZeroRead ==
    /\ pc = "wait_chk"
    /\ nDispatch = 1
    /\ samples = << >>
    /\ sumRead = 0
    /\ bytesRead = 0
    /\ ~terminationRequired

\* C10: the step after a failed read sets terminationRequired and leaves the
\* counter and the LED as they were; the step after a failed LED write sets
\* terminationRequired and leaves the counter at the sum of the reads.
C10_UartErrorsAreFatal ==
    [][ /\ (pc = "uart_chk" /\ bytesRead < 0 /\ pc' # pc) =>
               /\ terminationRequired'
               /\ pc' = "wait_chk"
               /\ UNCHANGED << totalBytesReceived, ledLevel >>
        /\ (pc = "uart_led_chk" /\ result # 0 /\ pc' # pc) =>
               /\ terminationRequired'
               /\ pc' = "wait_chk"
               /\ totalBytesReceived' = SizeT(sumRead) ]_vars

\* The LED write after a read of 5 bytes failed.
C10_AfterFailedLedWrite ==
    /\ pc = "wait_chk"
    /\ result # 0
    /\ bytesRead = 5
    /\ terminationRequired
    /\ totalBytesReceived = SizeT(5)

Reverse(s) == [ i \in 1 .. Len(s) |-> s[Len(s) + 1 - i] ]

\* The positions of main after the LED write of ClosePeripheralsAndHandlers.
AfterLedOff == { "close_1", "close_2", "close_3", "close_4", "close_5", "done" }

\* C11: ClosePeripheralsAndHandlers writes High to the LED, when it was
\* acquired, before it closes anything; it closes what was acquired in the
\* reverse of the order of acquisition; the last level written to the LED is
\* High, and the LED is at High unless that last write failed.
C11_ShutdownOrder ==
    /\ IsPrefix(closeLog, Reverse(acquireLog))
    /\ (pc = "done" => closeLog = Reverse(acquireLog))
    /\ (pc \in { "close_led", "close_1" } => closeLog = << >>)
    /\ (pc \in AfterLedOff /\ incomingDataLedGpioFd >= 0 =>
           /\ ledRequested = "High"
           /\ ("led_off" \notin errors => ledLevel = "High"))

\* A run that left the LED on (an odd total, written with success) and then
\* closed all five descriptors.
C11_ClosedWithLedOn ==
    /\ pc = "done"
    /\ totalBytesReceived.lo % 2 = 1
    /\ "led_write" \notin errors
    /\ ledLevel = "High"
    /\ closeLog = << incomingDataLedGpioFd, buttonPollTimerFd,
                     triggerSendButtonGpioFd, uartFd, epollFd >>

\* The positions of main inside InitPeripheralsAndHandlers, after sigaction.
Acquiring == { "init_epoll", "init_uart", "init_uart_reg", "init_button",
               "init_timer", "init_led" }

\* C12 as stated: while the peripherals are being acquired the handler is
\* not installed and terminationRequired cannot have been set.
C12_HandlerInstalledLast ==
    pc \in Acquiring => ~handlerInstalled /\ ~terminationRequired

\* C12 as amended: the handler is installed before anything is acquired, so
\* that whatever is acquired is acquired with the handler in place, and
\* terminationRequired is never set while the handler is not installed.
C12_HandlerInstalledFirst ==
    /\ (pc \in Acquiring => handlerInstalled)
    /\ (~handlerInstalled =>
           acquireLog = << >> /\ openFds = { 0, 1, 2 } /\ ~terminationRequired)

\* The signal arrived after the UART was opened and before the button was.
C12_SignalWhileAcquiring ==
    /\ pc = "init_button"
    /\ terminationRequired
    /\ errors = {}
    /\ Len(acquireLog) = 2

\* C13: a failed acknowledgement of the timer or a failed read of the button
\* sets terminationRequired and returns from the handler at once: no sample
\* is taken after it, no send is started and buttonState stays as it was.
C13_PollErrorsAbort ==
    /\ [][ (pc \in { "btn_consume", "btn_read" } /\ errors' # errors) =>
               /\ terminationRequired'
               /\ pc' = "wait_chk"
               /\ UNCHANGED << buttonState, samples, sendPolls, wire,
                               sendLocals >> ]_vars
    /\ []((errors \cap { "timer_ack", "button_read" } # {}) =>
               /\ terminationRequired
               /\ pc \in { "wait_chk", "loop", "close_led" } \cup AfterLedOff)

\* The button is held (Low) and the second read of it failed.
C13_SecondReadFailed ==
    /\ pc = "wait_chk"
    /\ "button_read" \in errors
    /\ samples = << "Low" >>
    /\ sendPolls = << 0 >>
    /\ buttonState = "Low"

\* ButtonPollTimerEventHandler is between the sample and its return.
ButtonHandlerBusy ==
    pc \in { "btn_cmp", "send_loop", "send_chk", "btn_update" }

\* C14: whenever the handler is not between a sample and its return,
\* buttonState is the last level sampled (High before the first sample).
C14_StateIsLastSample ==
    ~ButtonHandlerBusy =>
        buttonState = (IF samples = << >> THEN "High"
                                          ELSE samples[Len(samples)])

\* The handler has returned from a press whose send a write error abandoned.
C14_AfterAbandonedSend ==
    /\ pc = "wait_chk"
    /\ "uart_write" \in errors
    /\ samples = << "Low" >>
    /\ buttonState = "Low"

\* C15: at exit every call that failed has been reported with Log_Debug, the
\* LED write of ClosePeripheralsAndHandlers included, and everything has
\* been closed.
C15_EveryErrorIsLogged ==
    pc = "done" => (errors \subseteq log /\ openFds = { 0, 1, 2 })

\* The descriptors on the interest list of epollFd.
RegisteredFds == { r[1] : r \in registered }

\* The positions of main inside WaitForEventAndCallHandler and the handlers.
Dispatching ==
    { "wait", "btn_consume", "btn_read", "btn_cmp", "btn_update", "send_loop",
      "send_chk", "uart_read", "uart_chk", "uart_add", "uart_led", "uart_led_chk" }

\* C16 as stated: what is registered is open, and a source is off the
\* interest list by the time it is closed.
C16_UnregisteredBeforeClosed ==
    /\ [](RegisteredFds \subseteq openFds)
    /\ [][ \A fd \in openFds \ openFds' : fd \notin RegisteredFds ]_vars

\* C16 as amended: what is registered is open, and the epoll instance with
\* it; a source leaves the interest list only in the step that closes it
\* (nothing is unregistered first); nothing has been closed while main is in
\* WaitForEventAndCallHandler or in a handler.
C16_RegisteredAreOpen ==
    /\ []((RegisteredFds \subseteq openFds) /\
          (registered # {} => epollFd \in openFds))
    /\ [](pc \in Dispatching => closeLog = << >>)
    /\ [][ \A fd \in RegisteredFds \ RegisteredFds' :
               fd \in openFds /\ fd \notin openFds' ]_vars

\* The timer is closed and off the list; the UART is open and still on it.
C16_TimerClosedUartRegistered ==
    /\ pc = "close_3"
    /\ buttonPollTimerFd >= 0 /\ buttonPollTimerFd \notin openFds
    /\ RegisteredFds = { uartFd }
    /\ uartFd \in openFds

\* The errors a handler reports by setting terminationRequired.
HandlerErrors ==
    { "timer_ack", "button_read", "uart_write", "uart_read", "led_write" }

\* C17: after a handler has met a fatal error no handler is invoked and
\* WaitForEventAndCallHandler is not entered again; back in main the flag is
\* set.  Once terminationRequired is set, by a handler or by the signal,
\* WaitForEventAndCallHandler is not entered: only a call already under way
\* (pc = "wait") can still invoke a handler, so at most one does.
C17_NoDispatchAfterFatal ==
    /\ [][ (errors \cap HandlerErrors # {}) =>
               pc' # "wait" /\ nDispatch' = nDispatch ]_vars
    /\ [][ (terminationRequired /\ pc # "wait") => pc' # "wait" ]_vars
    /\ []((errors \cap HandlerErrors # {} /\ pc \in { "wait_chk", "loop" }) =>
               terminationRequired)

\* The second handler invoked met a failed read; main went on to exit.
C17_ExitAfterFailedRead ==
    /\ pc = "done"
    /\ "uart_read" \in errors
    /\ nDispatch = 2

\* The natural number total + n on three limbs.
Exact3(total, n) ==
    LET lo == total.lo + n
        hi == total.hi + (lo \div Limb)
    IN  [ top |-> hi \div Limb, hi |-> hi % Limb, lo |-> lo % Limb ]

\* The natural number a size_t holds, on three limbs.
Widen(total) == [ top |-> 0, hi |-> total.hi, lo |-> total.lo ]

\* C18: UartEventHandler is entered from the dispatcher only and reads once,
\* at most receiveBufferSize bytes; the terminator is stored inside the
\* buffer; a step that changes totalBytesReceived adds 0 to 256 to it.
C18_OneBoundedRead ==
    [][ /\ (pc' = "uart_read" /\ pc # "uart_read" => pc = "wait")
        /\ (pc = "uart_read" /\ pc' # pc =>
               pc' = "uart_chk" /\ bytesRead' <= receiveBufferSize)
        /\ (pc = "uart_add" =>
               TerminatorIndex(bytesRead) \in 0 .. (ReceiveBufferLength - 1))
        /\ (totalBytesReceived' # totalBytesReceived =>
               \E n \in 0 .. receiveBufferSize :
                   Widen(totalBytesReceived') = Exact3(totalBytesReceived, n))
      ]_vars

\* A send is under way.
Sending == pc \in { "send_loop", "send_chk" }

\* C19: every send that is started ends, with SendUartMessage back in the
\* button handler and the handler back in main.
C19_SendEnds == Sending ~> (pc = "wait_chk")

\* a < b for two size_t.
SizeLess(a, b) == a.hi < b.hi \/ (a.hi = b.hi /\ a.lo < b.lo)

\* C20: no step leaves totalBytesReceived smaller than it was.
C20_NeverSmaller ==
    [][ ~SizeLess(totalBytesReceived', totalBytesReceived) ]_vars

\* C4 over the run that passes 2^32: totalBytesReceived is the natural
\* number the reads add up to, WrapStart before the first state and sumRead
\* since, less the read about to be added.
C4_CounterIsExactSum ==
    Widen(totalBytesReceived) = Exact3(WrapStart, sumRead - ReadNotCounted)

=============================================================================
